---- MODULE Spec2Model ----
(***************************************************************************)
(* A model of the embedded-error crate: nine error enums (src/lib.rs and   *)
(* src/mci.rs), the values a driver can build from them, and what a        *)
(* consumer crate can do with such a value: match on it and, where Clone   *)
(* is derived, duplicate it.                                               *)
(*                                                                         *)
(* An enum declaration is a record of its attributes and its variants in   *)
(* declaration order. A value is a discriminant (the position of the       *)
(* variant in the declaration) together with the payload stored inline.    *)
(***************************************************************************)
EXTENDS Naturals, Sequences, FiniteSets

VARIABLES pc, err, given, seen, dup, allocs, rev

vars == <<pc, err, given, seen, dup, allocs, rev>>

\* How many variants a later release of the crate adds to each enum.
MaxNewVariants == 1

----------------------------------------------------------------------------
(* Declarations *)

\* The payload of a variant declared without one.
Unit == "()"

\* A variant declared as `Name,`
V(n) == [name |-> n, payload |-> Unit]

\* A variant declared as `Name(Payload),`
W(n, p) == [name |-> n, payload |-> p]

\* GpioError whose Impl variant lost its payload.
GpioError_ImplUnit ==
  [ derive |-> {"Debug", "Clone"}, non_exhaustive |-> TRUE,
    variants |-> << V("WrongMode"), V("Impl") >> ]

\* GpioError without #[non_exhaustive].
GpioError_Exhaustive ==
  [ derive |-> {"Debug", "Clone"}, non_exhaustive |-> FALSE,
    variants |-> << V("WrongMode"), W("Impl", "ImplError") >> ]

GpioError ==
  [ derive |-> {"Debug", "Clone"}, non_exhaustive |-> TRUE,
    variants |-> << V("WrongMode"), W("Impl", "ImplError") >> ]

\* UsbError with one variant left out.
UsbError_Missing ==
  [ derive |-> {"Debug", "Clone"}, non_exhaustive |-> TRUE,
    variants |-> << V("WouldBlock"), V("ParseError"), V("BufferOverflow"),
                    V("EndpointOverflow"),
                    V("InvalidEndpoint"), V("Unsupported"), V("InvalidState"),
                    W("Impl", "ImplError") >> ]

UsbError ==
  [ derive |-> {"Debug", "Clone"}, non_exhaustive |-> TRUE,
    variants |-> << V("WouldBlock"), V("ParseError"), V("BufferOverflow"),
                    V("EndpointOverflow"), V("EndpointMemoryOverflow"),
                    V("InvalidEndpoint"), V("Unsupported"), V("InvalidState"),
                    W("Impl", "ImplError") >> ]

\* SpiError with a second variant that carries an ImplError.
SpiError_TwoImpl ==
  [ derive |-> {"Debug", "Clone"}, non_exhaustive |-> TRUE,
    variants |-> << V("Overrun"), V("ModeFault"), V("CRCError"),
                    W("FrameFormat", "ImplError"), W("Impl", "ImplError") >> ]

SpiError ==
  [ derive |-> {"Debug", "Clone"}, non_exhaustive |-> TRUE,
    variants |-> << V("Overrun"), V("ModeFault"), V("CRCError"),
                    V("FrameFormat"), W("Impl", "ImplError") >> ]

SerialError ==
  [ derive |-> {"Debug", "Clone"}, non_exhaustive |-> TRUE,
    variants |-> << V("Overrun"), V("FrameFormat"), V("Parity"), V("Noise"),
                    W("Impl", "ImplError") >> ]

I2cError ==
  [ derive |-> {"Debug", "Clone"}, non_exhaustive |-> TRUE,
    variants |-> << V("Bus"), V("ArbitrationLoss"), V("NACK"), V("Overrun"),
                    V("Underrun"), V("PacketErrorChecking"), V("Timeout"),
                    V("Alert"), W("Impl", "ImplError") >> ]

ImplError ==
  [ derive |-> {"Debug", "Clone"}, non_exhaustive |-> TRUE,
    variants |-> << V("Internal"), V("Disconnected"), V("OutOfMemory"),
                    V("TimedOut"), V("Asleep"), V("PowerDown"),
                    V("InvalidConfiguration"), V("CouldNotOpen"),
                    V("PermissionDenied") >> ]

\* MciError whose CommandError variant does not say which fault it was.
MciError_FlatCommandError ==
  [ derive |-> {"Debug"}, non_exhaustive |-> TRUE,
    variants |-> << W("DataError", "CommandOrDataError"),
                    V("CommandInhibited"),
                    V("CommandError"),
                    V("Adma"), V("GroupBusy"), V("CiaCouldNotFindTuple"),
                    V("IncorrectDataSize"), V("CouldNotSelectDevice"),
                    V("NoCard"), V("UnusableCard"), V("ReadError"),
                    V("WriteProtected"), V("WriteError"),
                    V("PinLevelReadError"),
                    W("Setup", "SetupError"), W("Impl", "ImplError") >> ]

\* MciError with a second variant that carries a SetupError.
MciError_TwoSetup ==
  [ derive |-> {"Debug"}, non_exhaustive |-> TRUE,
    variants |-> << W("DataError", "CommandOrDataError"),
                    V("CommandInhibited"),
                    W("CommandError", "CommandOrDataError"),
                    V("Adma"), V("GroupBusy"), V("CiaCouldNotFindTuple"),
                    V("IncorrectDataSize"), V("CouldNotSelectDevice"),
                    V("NoCard"), V("UnusableCard"), V("ReadError"),
                    V("WriteProtected"), V("WriteError"),
                    W("PinLevelReadError", "SetupError"),
                    W("Setup", "SetupError"), W("Impl", "ImplError") >> ]

\* MciError with Clone derived.
MciError_Clone ==
  [ derive |-> {"Debug", "Clone"}, non_exhaustive |-> TRUE,
    variants |-> << W("DataError", "CommandOrDataError"),
                    V("CommandInhibited"),
                    W("CommandError", "CommandOrDataError"),
                    V("Adma"), V("GroupBusy"), V("CiaCouldNotFindTuple"),
                    V("IncorrectDataSize"), V("CouldNotSelectDevice"),
                    V("NoCard"), V("UnusableCard"), V("ReadError"),
                    V("WriteProtected"), V("WriteError"),
                    V("PinLevelReadError"),
                    W("Setup", "SetupError"), W("Impl", "ImplError") >> ]

MciError ==
  [ derive |-> {"Debug"}, non_exhaustive |-> TRUE,
    variants |-> << W("DataError", "CommandOrDataError"),
                    V("CommandInhibited"),
                    W("CommandError", "CommandOrDataError"),
                    V("Adma"), V("GroupBusy"), V("CiaCouldNotFindTuple"),
                    V("IncorrectDataSize"), V("CouldNotSelectDevice"),
                    V("NoCard"), V("UnusableCard"), V("ReadError"),
                    V("WriteProtected"), V("WriteError"),
                    V("PinLevelReadError"),
                    W("Setup", "SetupError"), W("Impl", "ImplError") >> ]

\* SetupError with an escape hatch of its own.
SetupError_WithImpl ==
  [ derive |-> {"Debug"}, non_exhaustive |-> TRUE,
    variants |-> << V("CouldNotSetBusWidth"), V("CouldNotSetToHighSpeed"),
                    V("CouldNotCheckIfIsHighSpeed"),
                    W("Impl", "ImplError") >> ]

SetupError ==
  [ derive |-> {"Debug"}, non_exhaustive |-> TRUE,
    variants |-> << V("CouldNotSetBusWidth"), V("CouldNotSetToHighSpeed"),
                    V("CouldNotCheckIfIsHighSpeed") >> ]

CommandOrDataError ==
  [ derive |-> {"Debug"}, non_exhaustive |-> TRUE,
    variants |-> << V("Timeout"), V("Crc"), V("EndBit"), V("Index") >> ]

\* The public enums of the crate, by path.
Enums == { "GpioError", "UsbError", "SpiError", "SerialError", "I2cError",
           "ImplError", "MciError", "SetupError", "CommandOrDataError" }

\* Name resolution: the declaration a type name stands for.
Decl(T) ==
  CASE T = "GpioError"          -> GpioError
    [] T = "UsbError"           -> UsbError
    [] T = "SpiError"           -> SpiError
    [] T = "SerialError"        -> SerialError
    [] T = "I2cError"           -> I2cError
    [] T = "ImplError"          -> ImplError
    [] T = "MciError"           -> MciError
    [] T = "SetupError"         -> SetupError
    [] T = "CommandOrDataError" -> CommandOrDataError

\* The variants of T in declaration order.
Variants(T) == Decl(T).variants

\* The names of the declared variants of T.
Names(T) == { Variants(T)[i].name : i \in 1..Len(Variants(T)) }

\* The names a later release gives to the variants it adds.
NewNames == << "New1", "New2", "New3", "New4" >>

\* The variant of T with discriminant i: the declared ones first, the ones a
\* later release adds after them.
VariantAt(T, i) ==
  IF i <= Len(Variants(T)) THEN Variants(T)[i]
                           ELSE V(NewNames[i - Len(Variants(T))])

\* Every payload kept behind a pointer to the heap.
HeapCells_Boxed(T, i) ==
  IF VariantAt(T, i).payload = Unit THEN 0 ELSE 1

\* Cells a value of variant i of T keeps on the heap: a unit variant and a
\* payload that is an enum of this crate are stored inline, anything else
\* (the crate is no_std and names no allocating type) would be boxed.
HeapCells(T, i) ==
  IF VariantAt(T, i).payload \in Enums \cup {Unit} THEN 0 ELSE 1

----------------------------------------------------------------------------
(* Values *)

\* No value: an empty slot.
Nil == [ty |-> "none", tag |-> 0, payload |-> << >>]

\* A constructor that stores the payload and forgets which variant it is.
Mk_NoTag(T, i, p) == [ty |-> T, tag |-> 1, payload |-> p]

\* The enum constructor expression `T::Variant` / `T::Variant(p)`: the
\* discriminant of the variant and the payload, held by value.
Mk(T, i, p) == [ty |-> T, tag |-> i, payload |-> p]

\* The variant a value is of, read back from its discriminant.
VariantName(v) == VariantAt(v.ty, v.tag).name

\* The binding of a tuple pattern `T::Variant(x)`: the payload of v.
Payload(v) == IF v.payload = << >> THEN Nil ELSE v.payload[1]

\* #[derive(Clone)]: the same variant, built from the clone of its payload.
RECURSIVE CloneOf(_)
CloneOf(v) ==
  Mk(v.ty, v.tag,
     IF v.payload = << >> THEN << >> ELSE << CloneOf(v.payload[1]) >>)

\* Whether `.clone()` exists for values of T.
HasClone(T) == "Clone" \in Decl(T).derive

\* Every value of T that the declared variants can build.
RECURSIVE Values(_)
Values(T) ==
  UNION { IF Variants(T)[i].payload = Unit
            THEN { Mk(T, i, << >>) }
            ELSE { Mk(T, i, << w >>) : w \in Values(Variants(T)[i].payload) }
          : i \in 1..Len(Variants(T)) }

\* How deep a value nests: 1 for a unit variant, one more per payload.
RECURSIVE Depth(_)
Depth(v) == IF v.payload = << >> THEN 1 ELSE 1 + Depth(v.payload[1])

----------------------------------------------------------------------------
(* A match expression in a consumer crate *)

\* The arm sets a consumer writes: every declared variant, one variant, none.
ArmSets(T) == { Names(T) } \cup { {n} : n \in Names(T) } \cup { {} }

\* Whether a match on a T with these variant arms, and with or without a
\* catch-all arm `_ =>`, compiles in a consumer crate: the patterns must
\* cover the type, and the variants of a #[non_exhaustive] enum never do.
Accepted(T, arms, wild) ==
  /\ arms \subseteq Names(T)
  /\ \/ wild
     \/ ~Decl(T).non_exhaustive /\ arms = Names(T)

\* The arm a value takes.
Arm(v, arms, wild) ==
  IF VariantName(v) \in arms THEN VariantName(v)
  ELSE IF wild THEN "_" ELSE "unmatched"

----------------------------------------------------------------------------
(* The driver builds an error value and returns it; the caller inspects it *)

Init ==
  /\ pc = "driver"
  /\ err = Nil
  /\ given = Nil
  /\ seen = [arm |-> "", inner |-> Nil, catchall |-> FALSE]
  /\ dup = Nil
  /\ allocs = 0
  /\ rev = 0

\* The driver writes `T::Variant` for a variant without payload.
Construct(T, i) ==
  /\ pc = "driver"
  /\ i \in 1..(Len(Variants(T)) + rev)
  /\ VariantAt(T, i).payload = Unit
  /\ err' = Mk(T, i, << >>)
  /\ allocs' = allocs + HeapCells(T, i)
  /\ pc' = "built"
  /\ UNCHANGED <<given, seen, dup, rev>>

\* The driver writes `T::Variant(err)`: the value it holds becomes the
\* payload of a value of the enclosing enum.
Wrap(T, i) ==
  /\ pc = "built"
  /\ i \in 1..Len(Variants(T))
  /\ Variants(T)[i].payload = err.ty
  /\ given' = err
  /\ err' = Mk(T, i, << err >>)
  /\ allocs' = allocs + HeapCells(T, i)
  /\ UNCHANGED <<pc, seen, dup, rev>>

\* The driver returns the value as the error of its result.
Return ==
  /\ pc = "built"
  /\ pc' = "caller"
  /\ UNCHANGED <<err, given, seen, dup, allocs, rev>>

\* The caller duplicates the value, where its type has Clone.
Clone ==
  /\ pc = "caller"
  /\ dup = Nil
  /\ HasClone(err.ty)
  /\ dup' = CloneOf(err)
  /\ UNCHANGED <<pc, err, given, seen, allocs, rev>>

\* The caller matches on the value, a T, with the arms it wrote against the
\* declared variants.
Match(T, arms, wild) ==
  /\ pc = "caller"
  /\ err.ty = T
  /\ Accepted(T, arms, wild)
  /\ seen' = [ arm      |-> Arm(err, arms, wild),
               inner    |-> IF VariantName(err) \in arms THEN Payload(err)
                                                         ELSE Nil,
               catchall |-> wild ]
  /\ pc' = "matched"
  /\ UNCHANGED <<err, given, dup, allocs, rev>>

\* The caller is done with the value.
Drop ==
  /\ pc = "matched"
  /\ pc' = "driver"
  /\ err' = Nil
  /\ given' = Nil
  /\ seen' = [arm |-> "", inner |-> Nil, catchall |-> FALSE]
  /\ dup' = Nil
  /\ UNCHANGED <<allocs, rev>>

\* A later release of the crate adds a variant to every enum; the caller
\* is not recompiled against it.
Release ==
  /\ pc = "driver"
  /\ rev < MaxNewVariants
  /\ rev' = rev + 1
  /\ UNCHANGED <<pc, err, given, seen, dup, allocs>>

Next ==
  \/ \E T \in Enums :
       \E i \in 1..(Len(Variants(T)) + MaxNewVariants) : Construct(T, i)
  \/ \E T \in Enums : \E i \in 1..Len(Variants(T)) : Wrap(T, i)
  \/ Return
  \/ Clone
  \/ \E T \in Enums : \E arms \in ArmSets(T) :
       \E wild \in BOOLEAN : Match(T, arms, wild)
  \/ Drop

Spec == Init /\ [][Next]_vars

NextOpen == Next \/ Release

SpecOpen == Init /\ [][NextOpen]_vars

----------------------------------------------------------------------------
(* Vocabulary of the properties *)

\* The six taxonomies a peripheral driver returns.
Peripheral ==
  { "GpioError", "UsbError", "SpiError", "SerialError", "I2cError",
    "MciError" }

\* The five peripheral taxonomies of src/lib.rs.
Flat == Peripheral \ { "MciError" }

\* The taxonomies of src/mci.rs.
MciCluster == { "MciError", "SetupError", "CommandOrDataError" }

\* The taxonomies that only occur as payloads of MciError.
SubTaxonomies == { "SetupError", "CommandOrDataError" }

\* The discriminants of the variants of T that carry a payload of type P.
Carrying(T, P) ==
  { i \in 1..Len(Variants(T)) : Variants(T)[i].payload = P }

\* The discriminants of the variants of T named n.
Named(T, n) == { i \in 1..Len(Variants(T)) : Variants(T)[i].name = n }

\* Whether a value holds an ImplError anywhere inside it.
RECURSIVE HoldsImpl(_)
HoldsImpl(v) ==
  \/ v.ty = "ImplError"
  \/ v.payload # << >> /\ HoldsImpl(v.payload[1])

----------------------------------------------------------------------------
(* C1 *)

\* C1: each of the six peripheral taxonomies declares exactly one variant
\* whose payload is an ImplError, that variant is named Impl in all six,
\* and so a value that carries an ImplError payload is always an Impl of
\* one of the six.
C1_OneImplVariant ==
  /\ \A T \in Peripheral :
       /\ Cardinality(Carrying(T, "ImplError")) = 1
       /\ Carrying(T, "ImplError") = Named(T, "Impl")
  /\ Payload(err).ty = "ImplError" =>
       err.ty \in Peripheral /\ VariantName(err) = "Impl"

\* An ImplError has been wrapped and returned to the caller.
C1_Witness ==
  /\ pc = "caller"
  /\ Payload(err).ty = "ImplError"
  /\ err.ty = "SerialError"

----------------------------------------------------------------------------
(* C2 *)

\* C2: for every peripheral taxonomy T and every ImplError case e, T has a
\* variant Impl that takes e, the pattern T::Impl(x) binds x to exactly e,
\* and a caller that matches a returned T::Impl(e) with an Impl arm gets
\* back the e the driver supplied.
C2_ImplRoundTrip ==
  /\ \A T \in Peripheral : \A e \in Values("ImplError") :
       \E i \in Carrying(T, "ImplError") :
         /\ VariantName(Mk(T, i, << e >>)) = "Impl"
         /\ Payload(Mk(T, i, << e >>)) = e
         /\ VariantName(Payload(Mk(T, i, << e >>))) = VariantName(e)
  /\ (pc = "matched" /\ given.ty = "ImplError" /\ seen.arm # "_") =>
       /\ seen.arm = "Impl"
       /\ seen.inner = given
       /\ VariantName(seen.inner) = VariantName(given)

\* The driver wrapped ImplError::Disconnected into SpiError::Impl and the
\* caller took the Impl arm.
C2_Witness ==
  /\ pc = "matched"
  /\ err.ty = "SpiError"
  /\ seen.arm = "Impl"
  /\ given.ty = "ImplError"
  /\ VariantName(given) = "Disconnected"
  /\ VariantName(seen.inner) = "Disconnected"

----------------------------------------------------------------------------
(* C3 *)

----------------------------------------------------------------------------
(* C4 *)

\* C4: for every CommandOrDataError case c, MciError::CommandError(c) and
\* MciError::DataError(c) are different values, the variant read back from
\* each names the phase, and the payload of each is c; a caller that takes
\* the CommandError or DataError arm is bound to the cause the driver gave.
C4_PhaseAndCause ==
  /\ Named("MciError", "CommandError") # {}
  /\ Named("MciError", "DataError") # {}
  /\ \A c \in Values("CommandOrDataError") :
       \A i \in Named("MciError", "CommandError") :
         \A j \in Named("MciError", "DataError") :
           /\ Variants("MciError")[i].payload = "CommandOrDataError"
           /\ Variants("MciError")[j].payload = "CommandOrDataError"
           /\ Mk("MciError", i, << c >>) # Mk("MciError", j, << c >>)
           /\ VariantName(Mk("MciError", i, << c >>)) = "CommandError"
           /\ VariantName(Mk("MciError", j, << c >>)) = "DataError"
           /\ Payload(Mk("MciError", i, << c >>)) = c
           /\ Payload(Mk("MciError", j, << c >>)) = c
  /\ (pc = "matched" /\ given.ty = "CommandOrDataError" /\ seen.arm # "_") =>
       /\ seen.arm \in {"CommandError", "DataError"}
       /\ seen.arm = VariantName(err)
       /\ seen.inner = given

\* The caller observed MciError::CommandError(CommandOrDataError::Timeout).
C4_Witness ==
  /\ pc = "matched"
  /\ err.ty = "MciError"
  /\ seen.arm = "CommandError"
  /\ VariantName(seen.inner) = "Timeout"
  /\ seen.inner.ty = "CommandOrDataError"

----------------------------------------------------------------------------
(* C5 *)

\* C5: no variant of CommandOrDataError or SetupError has a payload, so no
\* value of these two holds an ImplError; an ImplError is only ever held by
\* itself or by a value of a peripheral taxonomy.
C5_SubTaxonomiesFlat ==
  /\ \A T \in SubTaxonomies : \A i \in 1..Len(Variants(T)) :
       Variants(T)[i].payload = Unit
  /\ \A T \in SubTaxonomies : \A v \in Values(T) : ~HoldsImpl(v)
  /\ err.ty \in SubTaxonomies => err.payload = << >> /\ ~HoldsImpl(err)
  /\ (err # Nil /\ HoldsImpl(err)) => err.ty \in Peripheral \cup {"ImplError"}

\* The driver holds a SetupError value it has not wrapped yet.
C5_Witness ==
  /\ pc = "built"
  /\ err.ty = "SetupError"
  /\ VariantName(err) = "CouldNotSetToHighSpeed"

----------------------------------------------------------------------------
(* C6 *)

\* C6: all nine enums are #[non_exhaustive], so a consumer's match that
\* lists every declared variant and has no catch-all arm does not compile,
\* every match that runs has a catch-all arm, and a value of a variant a
\* later release added still takes an arm: the catch-all one.
C6_CatchAllRequired ==
  /\ \A T \in Enums :
       /\ Decl(T).non_exhaustive
       /\ ~Accepted(T, Names(T), FALSE)
       /\ Accepted(T, Names(T), TRUE)
  /\ pc = "caller" =>
       \A arms \in ArmSets(err.ty) :
         /\ ENABLED Match(err.ty, arms, TRUE)
         /\ ~ENABLED Match(err.ty, arms, FALSE)
  /\ pc = "matched" => seen.catchall /\ seen.arm # "unmatched"
  /\ (pc = "matched" /\ err.tag > Len(Variants(err.ty))) => seen.arm = "_"

\* After a release that added a variant, the caller matched a value of the
\* new variant and took the catch-all arm.
C6_Witness ==
  /\ pc = "matched"
  /\ rev >= 1
  /\ err.tag > Len(Variants(err.ty))
  /\ seen.arm = "_"
  /\ seen.catchall

----------------------------------------------------------------------------
(* C7 *)

\* The twelve variants of MciError declared without a payload.
MciFlatNames ==
  { "CommandInhibited", "Adma", "GroupBusy", "CiaCouldNotFindTuple",
    "IncorrectDataSize", "CouldNotSelectDevice", "NoCard", "UnusableCard",
    "ReadError", "WriteProtected", "WriteError", "PinLevelReadError" }

\* C7: in MciError exactly CommandError and DataError carry a
\* CommandOrDataError, exactly Setup carries a SetupError, exactly Impl
\* carries an ImplError, the other twelve variants carry nothing, and no
\* variant of any enum but MciError::Setup carries a SetupError, so a
\* SetupError reaches the caller only inside MciError::Setup.
C7_MciComposition ==
  /\ Len(Variants("MciError")) = 16
  /\ Cardinality(Carrying("MciError", "CommandOrDataError")) = 2
  /\ Carrying("MciError", "CommandOrDataError")
       = Named("MciError", "CommandError") \cup Named("MciError", "DataError")
  /\ Cardinality(Carrying("MciError", "SetupError")) = 1
  /\ Carrying("MciError", "SetupError") = Named("MciError", "Setup")
  /\ Cardinality(Carrying("MciError", "ImplError")) = 1
  /\ Carrying("MciError", "ImplError") = Named("MciError", "Impl")
  /\ Cardinality(Carrying("MciError", Unit)) = 12
  /\ { Variants("MciError")[i].name : i \in Carrying("MciError", Unit) }
       = MciFlatNames
  /\ \A T \in Enums : \A i \in Carrying(T, "SetupError") :
       T = "MciError" /\ Variants(T)[i].name = "Setup"
  /\ Payload(err).ty = "SetupError" =>
       err.ty = "MciError" /\ VariantName(err) = "Setup"
  /\ (pc \in {"caller", "matched"} /\ given.ty = "SetupError") =>
       /\ err.ty = "MciError"
       /\ VariantName(err) = "Setup"
       /\ Payload(err) = given

\* The caller observed MciError::Setup(SetupError::CouldNotSetToHighSpeed).
C7_Witness ==
  /\ pc = "matched"
  /\ err.ty = "MciError"
  /\ seen.arm = "Setup"
  /\ seen.inner.ty = "SetupError"
  /\ VariantName(seen.inner) = "CouldNotSetToHighSpeed"

----------------------------------------------------------------------------
(* C8 *)

\* C8: building and inspecting a value never allocates and never fails:
\* no step puts anything on the heap, every payload-free variant can be
\* built, every variant with a payload can be built around every value of
\* its payload type, what is built is the value asked for, and a match on
\* it always takes an arm.
C8_Infallible ==
  /\ allocs = 0
  /\ pc = "driver" =>
       \A T \in Enums : \A i \in Carrying(T, Unit) :
         ENABLED Construct(T, i)
  /\ pc = "built" =>
       \A T \in Enums : \A i \in Carrying(T, err.ty) : ENABLED Wrap(T, i)
  /\ pc # "driver" => err # Nil /\ err \in Values(err.ty)
  /\ pc = "caller" =>
       /\ ENABLED Match(err.ty, {VariantName(err)}, TRUE)
       /\ ENABLED Match(err.ty, {}, TRUE)
  /\ pc = "matched" => seen.arm \in {VariantName(err), "_"}

\* A value with a payload was built, returned and matched without a single
\* allocation.
C8_Witness ==
  /\ pc = "matched"
  /\ err.ty = "MciError"
  /\ err.payload # << >>
  /\ seen.arm = VariantName(err)
  /\ allocs = 0

----------------------------------------------------------------------------
(* C9 *)

\* C9: Clone is derived for the five flat peripheral taxonomies and for
\* ImplError and for none of MciError, SetupError, CommandOrDataError: a
\* returned value of a flat taxonomy can be cloned, the clone has the same
\* variant and the same payload and the original is unchanged, and no
\* value of the MCI cluster can be cloned, MciError::Impl(e) included.
C9_CloneOnlyFlat ==
  [][ /\ \A T \in Flat \cup {"ImplError"} : HasClone(T)
      /\ \A T \in MciCluster : ~HasClone(T)
      /\ (dup = Nil /\ dup' # Nil) =>
           /\ err' = err
           /\ dup' = err
           /\ VariantName(dup') = VariantName(err)
           /\ Payload(dup') = Payload(err)
           /\ err.ty \in Flat \cup {"ImplError"}
      /\ (pc = "caller" /\ dup = Nil /\ err.ty \in Flat) => ENABLED Clone
      /\ (pc = "caller" /\ err.ty \in MciCluster) => ~ENABLED Clone
      /\ dup' # Nil => dup'.ty \notin MciCluster
    ]_vars

\* The caller holds an I2cError::Impl(e) and its clone.
C9_Witness ==
  /\ dup # Nil
  /\ dup.ty = "I2cError"
  /\ Payload(dup).ty = "ImplError"
  /\ dup = err

----------------------------------------------------------------------------
(* C10 *)

\* The number of values of each taxonomy.
ValueCount ==
  [ ImplError |-> 9, CommandOrDataError |-> 4, SetupError |-> 3,
    GpioError |-> 10, UsbError |-> 17, SpiError |-> 13, SerialError |-> 13,
    I2cError |-> 17, MciError |-> 32 ]

\* C10: every taxonomy has finitely many values, in the stated numbers; a
\* payload is always a value of another enum of this crate whose variants
\* carry nothing, so a value nests at most two deep; and every value the
\* driver builds is one of them.
C10_ValueSpace ==
  /\ \A T \in Enums :
       /\ Cardinality(Values(T)) = ValueCount[T]
       /\ \A v \in Values(T) : Depth(v) <= 2
       /\ \A i \in 1..Len(Variants(T)) :
            \/ Variants(T)[i].payload = Unit
            \/ /\ Variants(T)[i].payload \in Enums \ {T}
               /\ \A j \in 1..Len(Variants(Variants(T)[i].payload)) :
                    Variants(Variants(T)[i].payload)[j].payload = Unit
  /\ Cardinality(Values("MciError"))
       = 12 + 2 * Cardinality(Values("CommandOrDataError"))
            + Cardinality(Values("SetupError"))
            + Cardinality(Values("ImplError"))
  /\ err # Nil => err \in Values(err.ty) /\ Depth(err) <= 2

\* The driver built a value that nests two deep.
C10_Witness ==
  /\ pc = "built"
  /\ err.ty = "UsbError"
  /\ Depth(err) = 2

====
